---------------------------- MODULE Spec2Model ----------------------------
(***************************************************************************)
(* A model of cbconsul's key-value layer: the Operation algebra and its    *)
(* factories, the Request builder (path_join, params), the Adapter's       *)
(* status handling, the response decoder, the KV facade and the            *)
(* flat-to-tree folder.                                                    *)
(*                                                                         *)
(* Python values are tagged records [kind, val].  Python strings that the  *)
(* code manipulates (keys, prefixes, separators, paths, field names) are   *)
(* sequences of one-character strings; names that are only compared        *)
(* (verbs, HTTP methods, exception classes, Operation field names) are     *)
(* TLA+ strings.  A dict is the sequence of its (key, value) items in      *)
(* insertion order.                                                        *)
(***************************************************************************)
EXTENDS Integers, Sequences, FiniteSets, TLC

VARIABLES
    kvs,        \* the KV facades created so far: <<[prefix, adapter], ...>>; kvs[1] is the original
    session,    \* Adapter._session: TRUE when an httpx.Client is held
    call,       \* the facade call made last: [name, kv, args]
    op,         \* the Operation that call built
    request,    \* the Request KV.apply handed to the Adapter
    http,       \* the service's answer: [status, body]
    response,   \* what Adapter.request gave KV.apply: the Response, or the exception raised
    outcome,    \* how the call ended: Py value returned, or Exc raised
    flat,       \* flatdict_to_dict: the items of dct not yet folded
    folded,     \* flatdict_to_dict: the items of dct already folded, in encounter order
    result,     \* flatdict_to_dict: the result dict so far (or the exception raised)
    pdict,      \* params_dict: what Operation.params_dict returned for op (None before the call)
    alive,      \* the httpx.Client objects constructed and not closed
    held,       \* the httpx.Client Adapter._session refers to (0 for None)
    pc,         \* per worker thread: where it stands in Adapter.request
    mine,       \* per worker thread: the client it constructed and has yet to store (0 for none)
    used        \* per worker thread: the clients it built and sent its request with (0 for not yet)

vars ==
    <<kvs, session, call, op, request, http, response, outcome, flat, folded, result,
      pdict, alive, held, pc, mine, used>>

kvVars == <<kvs, session, call, op, request, http, response, outcome>>
foldVars == <<flat, folded, result>>
paramVars == <<pdict>>
threadVars == <<pc, mine, used>>
asyncVars == <<alive, held, pc, mine, used>>

---------------------------------------------------------------------------
(* Python values *)

None == [kind |-> "None"]
Bool(b) == [kind |-> "bool", val |-> b]
Str(s) == [kind |-> "str", val |-> s]
Bytes(s) == [kind |-> "bytes", val |-> s]
Num(n) == [kind |-> "int", val |-> n]
List(q) == [kind |-> "list", val |-> q]
Dict(items) == [kind |-> "dict", val |-> items]
Exc(name) == [kind |-> "exc", val |-> name]

IsExc(v) == v.kind = "exc"

\* Python truthiness of the values the code tests with `or` / `if`.
Truthy(v) ==
    CASE v.kind = "None" -> FALSE
      [] v.kind = "bool" -> v.val
      [] v.kind = "int" -> v.val # 0
      [] v.kind \in {"str", "bytes", "list", "dict"} -> Len(v.val) > 0
      [] OTHER -> TRUE

---------------------------------------------------------------------------
(* Strings *)

Slash == "/"

RECURSIVE Flatten(_)
Flatten(ss) ==
    IF Len(ss) = 0 THEN <<>> ELSE Head(ss) \o Flatten(Tail(ss))

\* s.startswith(t) at offset i (1-based)
MatchAt(s, t, i) ==
    /\ i + Len(t) - 1 <= Len(s)
    /\ \A j \in 1..Len(t) : s[i + j - 1] = t[j]

EndsWith(s, t) ==
    Len(t) <= Len(s) /\ MatchAt(s, t, Len(s) - Len(t) + 1)

\* str.replace("//", "/"): one left-to-right pass over non-overlapping matches.
RECURSIVE ReplaceFrom(_, _)
ReplaceFrom(s, i) ==
    IF i > Len(s) THEN <<>>
    ELSE IF MatchAt(s, <<Slash, Slash>>, i)
         THEN <<Slash>> \o ReplaceFrom(s, i + 2)
         ELSE <<s[i]>> \o ReplaceFrom(s, i + 1)

ReplaceDoubleSlash(s) == ReplaceFrom(s, 1)

\* path_join of a str
PathJoinStr(p) == ReplaceDoubleSlash(<<Slash>> \o p)

\* path_join of a tuple of str
PathJoin(paths) ==
    ReplaceDoubleSlash(
        <<Slash>> \o Flatten([i \in 1..Len(paths) |-> PathJoinStr(paths[i])]))

---------------------------------------------------------------------------
(* Operation and its factories (kv.py) *)

Fields ==
    <<"verb", "key", "value", "raw", "separator", "keys", "recurse", "index",
      "wait", "flags", "cas", "acquire", "release">>

FieldNames == {Fields[i] : i \in 1..Len(Fields)}

\* Operation(verb, key, value): every modifier defaults to None
Operation(verb, key, value) ==
    [verb |-> verb, key |-> key, value |-> value,
     raw |-> None, separator |-> None, keys |-> None, recurse |-> None,
     index |-> None, wait |-> None, flags |-> None, cas |-> None,
     acquire |-> None, release |-> None]

\* a params_dict that keeps the modifiers that are truthy
MutParamsDict(o) ==
    LET exportable == FieldNames \ {"verb", "key", "value"}
        kept == {f \in FieldNames : f \in exportable /\ Truthy(o[f])}
    IN  [f \in kept |-> o[f]]

\* Operation.params_dict
ParamsDict(o) ==
    LET exportable == FieldNames \ {"verb", "key", "value"}
        kept == {f \in FieldNames : f \in exportable /\ o[f] # None}
    IN  [f \in kept |-> o[f]]

OpGet(key, raw) ==
    [Operation("get", key, None) EXCEPT !.raw = raw]

\* get_tree with the recurse argument passed through to the wire
MutOpGetTree(prefix, recurse, separator) ==
    [Operation("get-tree", prefix, None) EXCEPT
        !.recurse = recurse,
        !.separator = IF Truthy(recurse) THEN Str(<<>>) ELSE separator]

OpGetTree(prefix, recurse, separator) ==
    [Operation("get-tree", prefix, None) EXCEPT
        !.recurse = Bool(TRUE),
        !.separator = IF Truthy(recurse) THEN Str(<<>>) ELSE separator]

\* list_tree built as a copy of get_tree with keys added
MutOpListTree(prefix, recurse, separator) ==
    [Operation("get-tree", prefix, None) EXCEPT
        !.keys = Bool(TRUE),
        !.recurse = Bool(TRUE),
        !.separator = IF Truthy(recurse) THEN Str(<<>>) ELSE separator]

OpListTree(prefix, recurse, separator) ==
    [Operation("get-tree", prefix, None) EXCEPT
        !.keys = Bool(TRUE),
        !.separator = IF Truthy(recurse) THEN Str(<<>>) ELSE separator]

OpSet(key, value, flags) ==
    [Operation("set", key, value) EXCEPT !.flags = flags]

OpSetCas(key, value, index, flags) ==
    [Operation("cas", key, value) EXCEPT !.flags = flags, !.cas = index]

\* value.encode("utf-8") of the ASCII strings the model draws
Encode(value) == Bytes(value.val)

OpLock(key, value, flags) ==
    [Operation("acquire", key, Encode(value)) EXCEPT
        !.acquire = value, !.flags = flags]

OpUnlock(key, value, flags) ==
    [Operation("release", key, Encode(value)) EXCEPT
        !.release = value, !.flags = flags]

OpDelete(key) == Operation("delete", key, None)

OpDeleteCas(key, index) ==
    [Operation("delete-cas", key, None) EXCEPT !.cas = index]

OpDeleteTree(prefix) ==
    [Operation("delete-tree", prefix, None) EXCEPT !.recurse = Bool(TRUE)]

\* _get_method
GetMethod(o) ==
    IF o.verb \in {"delete-cas", "delete-tree", "delete"} THEN "DELETE"
    ELSE IF o.verb \in {"set", "cas", "lock", "unlock"} THEN "PUT"
    ELSE "GET"

---------------------------------------------------------------------------
(* Request, Response, Adapter (_adapter.py); raise_for_status_error (_utils.py) *)

KvPath == <<"k", "v">>

\* Request.__init__: params is kept as the mapping name -> value without its None values
Request(method, paths, params, content) ==
    [method |-> method,
     path |-> PathJoin(paths),
     content |-> content,
     params |-> [f \in {g \in DOMAIN params : params[g] # None} |-> params[f]],
     json |-> None]

\* raise_for_status_error without its 409 branch
MutRaiseForStatusError(status, allow_404) ==
    IF status >= 400 /\ status <= 499
    THEN IF status = 400 THEN "BadRequest"
         ELSE IF status = 401 THEN "ACLDisabled"
         ELSE IF status = 403 THEN "Forbidden"
         ELSE IF status = 404 THEN (IF ~allow_404 THEN "NotFound" ELSE "")
         ELSE "RequestError"
    ELSE IF status >= 500 /\ status <= 599 THEN "ServerError"
    ELSE ""

\* raise_for_status_error with allow_404 left at its default: the exception raised, or "" for none
RaiseForStatusError(status, allow_404) ==
    IF status >= 400 /\ status <= 499
    THEN IF status = 400 THEN "BadRequest"
         ELSE IF status = 401 THEN "ACLDisabled"
         ELSE IF status = 403 THEN "Forbidden"
         ELSE IF status = 404 THEN (IF ~allow_404 THEN "NotFound" ELSE "")
         ELSE IF status = 409 THEN "ConflictError"
         ELSE "RequestError"
    ELSE IF status >= 500 /\ status <= 599 THEN "ServerError"
    ELSE ""

\* Adapter.request once the service has answered `status` with `body` (bytes, or
\* the parsed JSON value when the Content-Type is application/json): the Response, or
\* the exception raised.
AdapterRequest(req, status, body) ==
    LET content == IF status = 404 THEN None ELSE body
        err == RaiseForStatusError(status, TRUE)
    IN  IF err # "" THEN Exc(err)
        ELSE [kind |-> "Response", method |-> req.method, status |-> status,
              content |-> content]

---------------------------------------------------------------------------
(* dict: the sequence of its (key, value) items in insertion order *)

DictKeys(items) == {items[i][1] : i \in 1..Len(items)}

DictHas(items, k) == k \in DictKeys(items)

DictGet(items, k) ==
    items[CHOOSE i \in 1..Len(items) : items[i][1] = k][2]

\* d[k] = v: an existing key keeps its place
DictSet(items, k, v) ==
    IF DictHas(items, k)
    THEN [i \in 1..Len(items) |-> IF items[i][1] = k THEN <<k, v>> ELSE items[i]]
    ELSE Append(items, <<k, v>>)

\* the mapping a dict denotes (Python's ==, which ignores insertion order),
\* taken through nested dicts
RECURSIVE Canon(_)
Canon(v) ==
    IF v.kind = "dict"
    THEN [kind |-> "mapping",
          val |-> [k \in DictKeys(v.val) |-> Canon(DictGet(v.val, k))]]
    ELSE v

---------------------------------------------------------------------------
(* camel_to_snake (_utils.py) *)

UpperCase ==
    <<"A", "B", "C", "D", "E", "F", "G", "H", "I", "J", "K", "L", "M",
      "N", "O", "P", "Q", "R", "S", "T", "U", "V", "W", "X", "Y", "Z">>

LowerCase ==
    <<"a", "b", "c", "d", "e", "f", "g", "h", "i", "j", "k", "l", "m",
      "n", "o", "p", "q", "r", "s", "t", "u", "v", "w", "x", "y", "z">>

Digits == {"0", "1", "2", "3", "4", "5", "6", "7", "8", "9"}

IsUpper(c) == \E i \in 1..Len(UpperCase) : UpperCase[i] = c
IsLower(c) == \E i \in 1..Len(LowerCase) : LowerCase[i] = c

LowerChar(c) ==
    IF IsUpper(c)
    THEN LowerCase[CHOOSE i \in 1..Len(UpperCase) : UpperCase[i] = c]
    ELSE c

\* str.lower
Lower(s) == [i \in 1..Len(s) |-> LowerChar(s[i])]

\* the end of the longest run of lower-case letters that starts at i
RECURSIVE LowerRunEnd(_, _)
LowerRunEnd(s, i) ==
    IF i < Len(s) /\ IsLower(s[i + 1]) THEN LowerRunEnd(s, i + 1) ELSE i

\* re.sub("(.)([A-Z][a-z]+)", r"\1_\2", s), scanning from i
RECURSIVE Cts1From(_, _)
Cts1From(s, i) ==
    IF i > Len(s) THEN <<>>
    ELSE IF i + 2 <= Len(s) /\ IsUpper(s[i + 1]) /\ IsLower(s[i + 2])
         THEN LET j == LowerRunEnd(s, i + 2)
              IN  <<s[i], "_">> \o SubSeq(s, i + 1, j) \o Cts1From(s, j + 1)
         ELSE <<s[i]>> \o Cts1From(s, i + 1)

\* re.sub("([a-z0-9])([A-Z])", r"\1_\2", s), scanning from i
RECURSIVE Cts2From(_, _)
Cts2From(s, i) ==
    IF i > Len(s) THEN <<>>
    ELSE IF i + 1 <= Len(s) /\ (IsLower(s[i]) \/ s[i] \in Digits) /\ IsUpper(s[i + 1])
         THEN <<s[i], "_", s[i + 1]>> \o Cts2From(s, i + 2)
         ELSE <<s[i]>> \o Cts2From(s, i + 1)

CamelToSnake(name) == Lower(Cts2From(Cts1From(name, 1), 1))

---------------------------------------------------------------------------
(* Record and _decode_content (kv.py) *)

F_key == <<"k", "e", "y">>
F_create_index == <<"c", "r", "e", "a", "t", "e", "_", "i", "n", "d", "e", "x">>
F_modify_index == <<"m", "o", "d", "i", "f", "y", "_", "i", "n", "d", "e", "x">>
F_lock_index == <<"l", "o", "c", "k", "_", "i", "n", "d", "e", "x">>
F_flags == <<"f", "l", "a", "g", "s">>
F_value == <<"v", "a", "l", "u", "e">>
F_session == <<"s", "e", "s", "s", "i", "o", "n">>

RecordFields ==
    {F_key, F_create_index, F_modify_index, F_lock_index, F_flags, F_value, F_session}

RecordDefault(f) ==
    IF f \in {F_value, F_session} THEN Str(<<>>) ELSE Num(0)

\* Record(**kwargs): a TypeError for an unexpected keyword or a missing key
Record(kwargs) ==
    IF ~(DictKeys(kwargs) \subseteq RecordFields) \/ ~DictHas(kwargs, F_key)
    THEN Exc("TypeError")
    ELSE [kind |-> "Record",
          val |-> [f \in RecordFields |->
                      IF DictHas(kwargs, f) THEN DictGet(kwargs, f)
                      ELSE RecordDefault(f)]]

\* {camel_to_snake(k): v for k, v in o.items()}
RECURSIVE SnakeKeys(_, _)
SnakeKeys(items, acc) ==
    IF Len(items) = 0 THEN acc
    ELSE SnakeKeys(Tail(items),
                   DictSet(acc, CamelToSnake(Head(items)[1]), Head(items)[2]))

RecordOf(o) == Record(SnakeKeys(o.val, <<>>))

AllOfKind(q, kind) == \A i \in 1..Len(q) : q[i].kind = kind

\* _decode_content unwrapping the first Record whatever the verb
MutDecodeContent(o, content) ==
    IF content.kind \in {"bool", "str", "bytes"} THEN content
    ELSE IF content.kind = "list"
    THEN IF AllOfKind(content.val, "str") THEN List(content.val)
         ELSE IF AllOfKind(content.val, "dict")
         THEN LET content_list == [i \in 1..Len(content.val) |-> RecordOf(content.val[i])]
              IN  IF \E i \in 1..Len(content_list) : IsExc(content_list[i])
                  THEN Exc("TypeError")
                  ELSE IF Len(content_list) > 0 THEN content_list[1]
                       ELSE List(content_list)
         ELSE None
    ELSE None

\* _decode_content: the decoded value, or the exception Record(**...) raised
DecodeContent(o, content) ==
    IF content.kind \in {"bool", "str", "bytes"} THEN content
    ELSE IF content.kind = "list"
    THEN IF AllOfKind(content.val, "str") THEN List(content.val)
         ELSE IF AllOfKind(content.val, "dict")
         THEN LET content_list == [i \in 1..Len(content.val) |-> RecordOf(content.val[i])]
              IN  IF \E i \in 1..Len(content_list) : IsExc(content_list[i])
                  THEN Exc("TypeError")
                  ELSE IF o.verb \in {"get", "watch"}
                       THEN (IF Len(content_list) > 0 THEN content_list[1]
                             ELSE List(content_list))
                       ELSE List(content_list)
         ELSE None
    ELSE None

---------------------------------------------------------------------------
(* KV.apply (kv.py) *)

\* key = self.prefix or "" + op.key, which Python reads as prefix or ("" + key)
ApplyKey(prefix, key) ==
    IF Truthy(prefix) THEN prefix.val ELSE <<>> \o key

ApplyRequest(kv, o) ==
    Request(GetMethod(o), <<KvPath, ApplyKey(kv.prefix, o.key)>>, ParamsDict(o), o.value)

\* KV.apply once the service has answered: the value returned or the exception raised
KVApply(kv, o, default, status, body) ==
    LET resp == AdapterRequest(ApplyRequest(kv, o), status, body)
    IN  IF IsExc(resp) THEN resp
        ELSE IF resp.content = None
             THEN (IF default = None THEN Exc("KeyError") ELSE default)
             ELSE DecodeContent(o, resp.content)

---------------------------------------------------------------------------
(* flatdict_to_dict (_utils.py) *)

\* the loop body with `current_dict[prefix_key] = typ()` in place of setdefault
RECURSIVE MutFoldEntry(_, _, _)
MutFoldEntry(node, key_tuple, value) ==
    IF Len(key_tuple) = 0 THEN Exc("IndexError")
    ELSE IF node.kind # "dict"
    THEN (IF Len(key_tuple) > 1 THEN Exc("AttributeError") ELSE Exc("TypeError"))
    ELSE IF Len(key_tuple) = 1
    THEN Dict(DictSet(node.val, key_tuple[1], value))
    ELSE LET prefix_key == Head(key_tuple)
             sub == MutFoldEntry(Dict(<<>>), Tail(key_tuple), value)
         IN  IF IsExc(sub) THEN sub
             ELSE Dict(DictSet(node.val, prefix_key, sub))

\* One iteration of the loop on the dict `node`: walk key_tuple[:-1] with setdefault,
\* then assign at key_tuple[-1].  A str or None met on the way has no setdefault
\* (AttributeError) and takes no item assignment (TypeError).
RECURSIVE FoldEntry(_, _, _)
FoldEntry(node, key_tuple, value) ==
    IF Len(key_tuple) = 0 THEN Exc("IndexError")
    ELSE IF node.kind # "dict"
    THEN (IF Len(key_tuple) > 1 THEN Exc("AttributeError") ELSE Exc("TypeError"))
    ELSE IF Len(key_tuple) = 1
    THEN Dict(DictSet(node.val, key_tuple[1], value))
    ELSE LET prefix_key == Head(key_tuple)
             child == IF DictHas(node.val, prefix_key)
                      THEN DictGet(node.val, prefix_key)
                      ELSE Dict(<<>>)
             sub == FoldEntry(child, Tail(key_tuple), value)
         IN  IF IsExc(sub) THEN sub
             ELSE Dict(DictSet(node.val, prefix_key, sub))

RECURSIVE FoldItems(_, _)
FoldItems(acc, items) ==
    IF IsExc(acc) \/ Len(items) = 0 THEN acc
    ELSE FoldItems(FoldEntry(acc, Head(items)[1], Head(items)[2]), Tail(items))

\* flatdict_to_dict(dct), dct given by its items in iteration order
FlatdictToDict(items) == FoldItems(Dict(<<>>), items)

---------------------------------------------------------------------------
(* KV.get_tree (kv.py) *)

\* str.split(sep) for a non-empty sep, scanning from i with the piece `cur` open
RECURSIVE SplitFrom(_, _, _, _)
SplitFrom(s, sep, i, cur) ==
    IF i > Len(s) THEN <<cur>>
    ELSE IF MatchAt(s, sep, i)
         THEN <<cur>> \o SplitFrom(s, sep, i + Len(sep), <<>>)
         ELSE SplitFrom(s, sep, i + 1, Append(cur, s[i]))

Split(s, sep) == SplitFrom(s, sep, 1, <<>>)

\* str.count(sep)
Count(s, sep) == Len(Split(s, sep)) - 1

\* seq[index:]
Drop(q, index) == SubSeq(q, index + 1, Len(q))

\* prefix + separator if not prefix.endswith(separator) else prefix
NormalizePrefix(prefix, separator) ==
    IF ~EndsWith(prefix, separator) THEN prefix \o separator ELSE prefix

\* b64decode(value).decode("utf-8"), on the encoded values the model's bodies carry
B64DecodeUtf8(value) ==
    IF value = <<>> THEN Str(<<>>)
    ELSE IF value = <<"M", "Q", "=", "=">> THEN Str(<<"1">>)
    ELSE IF value = <<"M", "g", "=", "=">> THEN Str(<<"2">>)
    ELSE Exc("binascii.Error")

\* the dict comprehension of KV.get_tree over the records left, acc the dict so far
RECURSIVE FlatOfRecords(_, _, _, _)
FlatOfRecords(records, separator, index, acc) ==
    IF Len(records) = 0 THEN Dict(acc)
    ELSE LET record == Head(records)
         IN  IF record.kind # "Record" \/ record.val[F_key].kind # "str"
             THEN Exc("AttributeError")
             ELSE LET key_tuple == Drop(Split(record.val[F_key].val, separator), index)
                      value == record.val[F_value]
                      decoded == IF value = None THEN None
                                 ELSE IF value.kind = "str" THEN B64DecodeUtf8(value.val)
                                 ELSE Exc("TypeError")
                  IN  IF IsExc(decoded) THEN decoded
                      ELSE FlatOfRecords(Tail(records), separator, index,
                                         DictSet(acc, key_tuple, decoded))

\* {key_transform(k): v for k, v in tree.items()} with key_transform = str.lower
RECURSIVE TransformKeys(_, _)
TransformKeys(items, acc) ==
    IF Len(items) = 0 THEN Dict(acc)
    ELSE TransformKeys(Tail(items), DictSet(acc, Lower(Head(items)[1]), Head(items)[2]))

\* KV.get_tree after get_records returned (or raised) `records`
TreeOfRecords(records, separator, index, key_transform) ==
    IF IsExc(records) THEN records
    ELSE IF records.kind \in {"None", "bool", "int", "Record"} THEN Exc("TypeError")
    ELSE IF records.kind \in {"str", "bytes"}
    THEN (IF Len(records.val) = 0 THEN Dict(<<>>) ELSE Exc("AttributeError"))
    ELSE LET flatdict == FlatOfRecords(records.val, separator, index, <<>>)
             tree == IF IsExc(flatdict) THEN flatdict ELSE FlatdictToDict(flatdict.val)
         IN  IF IsExc(tree) \/ key_transform = None THEN tree
             ELSE TransformKeys(tree.val, <<>>)

---------------------------------------------------------------------------
(* Inputs *)

MaxViews == 2
MaxItems == 3
MaxThreads == 2

Threads == 1..MaxThreads

K_config == <<"c", "o", "n", "f", "i", "g">>
K_ab == <<"a", Slash, "b">>
K_lead == <<Slash, Slash, "a">>
K_run3 == <<"a", Slash, Slash, Slash, "b">>
K_run5 == <<"a", Slash, Slash, Slash, Slash, Slash, "b">>
P_svc == <<"s", "v", "c", Slash>>
P_sub == <<"s", "u", "b", Slash>>

Keys == {K_config, K_ab, K_lead, K_run3, K_run5}
TreePrefixes == {K_ab, K_ab \o <<Slash>>}
InitPrefixes == {None, Str(P_svc)}
ScopePrefixes == {P_sub}
Separators == {<<Slash>>, <<":">>}
RawArgs == {None, Bool(TRUE)}
FlagArgs == {None, Num(1)}
IndexArgs == {Num(7)}
Values == {Str(<<"v">>)}
Sessions == {Str(<<"s", "1">>)}
KeyTransforms == {None, Str(<<"l", "o", "w", "e", "r">>)}
Defaults == {None, Str(<<"f", "a", "l", "l", "b", "a", "c", "k">>)}

Statuses == {200, 301, 400, 401, 403, 404, 409, 418, 499, 500, 599}

W_Key == <<"K", "e", "y">>
W_Value == <<"V", "a", "l", "u", "e">>
W_CreateIndex == <<"C", "r", "e", "a", "t", "e", "I", "n", "d", "e", "x">>
W_ModifyIndex == <<"M", "o", "d", "i", "f", "y", "I", "n", "d", "e", "x">>
W_Namespace == <<"N", "a", "m", "e", "s", "p", "a", "c", "e">>

\* key records as the service's JSON carries them
M_xy ==
    Dict(<< <<W_Key, Str(K_ab \o <<Slash, "x", Slash, "y">>)>>,
            <<W_Value, Str(<<"M", "Q", "=", "=">>)>>,
            <<W_CreateIndex, Num(3)>>, <<W_ModifyIndex, Num(7)>> >>)
M_xz ==
    Dict(<< <<W_Key, Str(K_ab \o <<Slash, "x", Slash, "Z">>)>>,
            <<W_Value, Str(<<"M", "g", "=", "=">>)>> >>)
M_x ==
    Dict(<< <<W_Key, Str(K_ab \o <<Slash, "x">>)>>, <<W_Value, None>> >>)
M_ns ==
    Dict(<< <<W_Key, Str(K_ab)>>, <<W_Namespace, Str(<<"d">>)>> >>)

\* what the service may answer: raw bytes, or the JSON value of an application/json body
Bodies ==
    { Bytes(<<"r", "a", "w">>), Bool(TRUE), Bool(FALSE), Str(<<"t">>), None, Num(5),
      List(<<>>), List(<<Str(K_ab), Str(K_config)>>),
      List(<<M_xy>>), List(<<M_xy, M_xz>>), List(<<M_xz, M_xy>>), List(<<M_xy, M_x>>),
      List(<<M_x, M_xy>>), List(<<M_ns>>), M_xy, List(<<Str(K_ab), M_xy>>) }

\* every Operation the factories build from the inputs above
FactoryOps ==
    {OpGet(k, r) : k \in Keys, r \in RawArgs}
    \cup {OpGetTree(p, Bool(r), Str(sp)) : p \in TreePrefixes, r \in BOOLEAN, sp \in Separators}
    \cup {OpListTree(p, Bool(r), Str(sp)) : p \in TreePrefixes, r \in BOOLEAN, sp \in Separators}
    \cup {OpSet(k, v, f) : k \in Keys, v \in Values, f \in FlagArgs}
    \cup {OpSetCas(k, v, i, f) : k \in Keys, v \in Values, i \in IndexArgs, f \in FlagArgs}
    \cup {OpLock(k, v, f) : k \in Keys, v \in Sessions, f \in FlagArgs}
    \cup {OpUnlock(k, v, f) : k \in Keys, v \in Sessions, f \in FlagArgs}
    \cup {OpDelete(k) : k \in Keys}
    \cup {OpDeleteCas(k, i) : k \in Keys, i \in IndexArgs}
    \cup {OpDeleteTree(p) : p \in TreePrefixes}

---------------------------------------------------------------------------
(* The facade's state machine *)

NoCall == [name |-> "none"]

KVInit ==
    /\ kvs \in {<<[prefix |-> p, adapter |-> "adapter"]>> : p \in InitPrefixes}
    /\ session = FALSE
    /\ call = NoCall
    /\ op = None
    /\ request = None
    /\ http = None
    /\ response = None
    /\ outcome = None

FoldIdle ==
    /\ flat = <<>>
    /\ folded = <<>>
    /\ result = Dict(<<>>)

ParamsIdle == pdict = None

\* a worker thread that has not entered Adapter.request, and one that has sent its request
Idle == [kv |-> 0, use |-> "none", step |-> "idle"]
Done(k) == [kv |-> k, use |-> "none", step |-> "done"]

\* no client yet, no worker thread started
AsyncIdle ==
    /\ alive = {}
    /\ held = 0
    /\ pc = [t \in Threads |-> Idle]
    /\ mine = [t \in Threads |-> 0]
    /\ used = [t \in Threads |-> [build |-> 0, send |-> 0]]

\* the identity of the next httpx.Client constructed
Fresh == CHOOSE n \in 1..(Cardinality(alive) + 1) : n \notin alive /\ \A m \in 1..(n - 1) : m \in alive

Init == KVInit /\ FoldIdle /\ ParamsIdle /\ AsyncIdle

\* A facade call through kvs[k] builds Operation o and hands its Request to the
\* Adapter, whose session property makes the client if there is none; the call then
\* waits for the service.
Issue(name, k, args, o) ==
    /\ call = NoCall
    /\ call' = [name |-> name, kv |-> k, args |-> args]
    /\ op' = o
    /\ request' = ApplyRequest(kvs[k], o)
    /\ session' = TRUE
    /\ held' = IF held = 0 THEN Fresh ELSE held
    /\ alive' = IF held = 0 THEN alive \cup {Fresh} ELSE alive
    /\ UNCHANGED <<kvs, http, response, outcome, foldVars, paramVars, threadVars>>

\* KV.__init__
KV(adapter, prefix) == [prefix |-> prefix, adapter |-> adapter]

\* a prefixed that rebinds the facade it is called on and yields that same facade
MutPrefixed ==
    \E k \in 1..Len(kvs), p \in ScopePrefixes :
        /\ call = NoCall
        /\ kvs[k].prefix # Str(p)
        /\ kvs' = [kvs EXCEPT ![k].prefix = Str(p)]
        /\ UNCHANGED <<session, call, op, request, http, response, outcome, foldVars, paramVars, asyncVars>>

\* KV.prefixed: a new facade over the same adapter
Prefixed ==
    \E k \in 1..Len(kvs), p \in ScopePrefixes :
        /\ call = NoCall
        /\ Len(kvs) < MaxViews
        /\ kvs' = Append(kvs, KV(kvs[k].adapter, Str(p)))
        /\ UNCHANGED <<session, call, op, request, http, response, outcome, foldVars, paramVars, asyncVars>>

\* Adapter.close
Close ==
    /\ call = NoCall
    /\ session
    /\ session' = FALSE
    /\ held' = 0
    /\ alive' = alive \ {held}
    /\ UNCHANGED <<kvs, call, op, request, http, response, outcome, foldVars, paramVars,
                   threadVars>>

Apply ==
    \E k \in 1..Len(kvs), o \in FactoryOps, d \in Defaults :
        Issue("apply", k, [default |-> d], o)

Get ==
    \E k \in 1..Len(kvs), key \in Keys, raw \in RawArgs :
        Issue("get", k, [key |-> key, raw |-> raw], OpGet(key, raw))

GetRecords ==
    \E k \in 1..Len(kvs), prefix \in TreePrefixes, recurse \in BOOLEAN,
       separator \in Separators :
        Issue("get_records", k,
              [prefix |-> prefix, recurse |-> recurse, separator |-> separator],
              OpGetTree(prefix, Bool(recurse), Str(separator)))

GetTree ==
    \E k \in 1..Len(kvs), prefix \in TreePrefixes, recurse \in BOOLEAN,
       separator \in Separators, kt \in KeyTransforms :
        Issue("get_tree", k,
              [prefix |-> prefix, recurse |-> recurse, separator |-> separator,
               key_transform |-> kt],
              OpGetTree(NormalizePrefix(prefix, separator), Bool(recurse), Str(separator)))

ListTree ==
    \E k \in 1..Len(kvs), prefix \in TreePrefixes, recurse \in BOOLEAN,
       separator \in Separators :
        Issue("list_tree", k,
              [prefix |-> prefix, recurse |-> recurse, separator |-> separator],
              OpListTree(NormalizePrefix(prefix, separator), Bool(recurse), Str(separator)))

Set ==
    \E k \in 1..Len(kvs), key \in Keys, value \in Values, flags \in FlagArgs :
        Issue("set", k, [key |-> key, value |-> value, flags |-> flags],
              OpSet(key, value, flags))

SetCas ==
    \E k \in 1..Len(kvs), key \in Keys, value \in Values, index \in IndexArgs,
       flags \in FlagArgs :
        Issue("set_cas", k,
              [key |-> key, value |-> value, index |-> index, flags |-> flags],
              OpSetCas(key, value, index, flags))

Lock ==
    \E k \in 1..Len(kvs), key \in Keys, value \in Sessions, flags \in FlagArgs :
        Issue("lock", k, [key |-> key, value |-> value, flags |-> flags],
              OpLock(key, value, flags))

Unlock ==
    \E k \in 1..Len(kvs), key \in Keys, value \in Sessions, flags \in FlagArgs :
        Issue("unlock", k, [key |-> key, value |-> value, flags |-> flags],
              OpUnlock(key, value, flags))

Delete ==
    \E k \in 1..Len(kvs), key \in Keys :
        Issue("delete", k, [key |-> key], OpDelete(key))

DeleteCas ==
    \E k \in 1..Len(kvs), key \in Keys, index \in IndexArgs :
        Issue("delete_cas", k, [key |-> key, index |-> index], OpDeleteCas(key, index))

DeleteTree ==
    \E k \in 1..Len(kvs), prefix \in TreePrefixes :
        Issue("delete_tree", k, [prefix |-> prefix], OpDeleteTree(prefix))

\* what the pending call returns or raises once the service has answered
Complete(c, o, status, body) ==
    IF c.name = "get_tree"
    THEN TreeOfRecords(KVApply(kvs[c.kv], o, None, status, body),
                       c.args.separator, Count(o.key, c.args.separator),
                       c.args.key_transform)
    ELSE KVApply(kvs[c.kv], o, IF c.name = "apply" THEN c.args.default ELSE None,
                 status, body)

\* the service answers the request in flight and the call runs to its end
Respond ==
    \E st \in Statuses, b \in Bodies :
        /\ call # NoCall
        /\ http = None
        /\ http' = [status |-> st, body |-> b]
        /\ response' = AdapterRequest(request, st, b)
        /\ outcome' = Complete(call, op, st, b)
        /\ UNCHANGED <<kvs, session, call, op, request, foldVars, paramVars, asyncVars>>

\* the caller takes the result; the facade is ready for the next call
Return ==
    /\ http # None
    /\ call' = NoCall
    /\ op' = None
    /\ request' = None
    /\ http' = None
    /\ response' = None
    /\ outcome' = None
    /\ UNCHANGED <<kvs, session, foldVars, paramVars, asyncVars>>

Next ==
    \/ Prefixed
    \/ Close
    \/ Apply
    \/ Get
    \/ GetRecords
    \/ GetTree
    \/ ListTree
    \/ Set
    \/ SetCas
    \/ Lock
    \/ Unlock
    \/ Delete
    \/ DeleteCas
    \/ DeleteTree
    \/ Respond
    \/ Return

Spec == Init /\ [][Next]_vars

---------------------------------------------------------------------------
(* flatdict_to_dict on its own: dct is drawn, the loop runs one item a step *)

X == <<"x">>
Y == <<"y">>
Z == <<"z">>

KeyTuples == {<<X>>, <<Y>>, <<X, Y>>, <<X, Z>>, <<Y, X>>, <<X, Y, Z>>}
LeafValues == {Str(<<"1">>), Str(<<"2">>), None}

\* the dicts of at most MaxItems items, as item sequences: no key twice
FlatDicts ==
    UNION {{q \in [1..n -> KeyTuples \X LeafValues] :
                \A i, j \in 1..n : i # j => q[i][1] # q[j][1]} : n \in 0..MaxItems}

FoldInit ==
    /\ KVInit
    /\ kvs[1].prefix = None
    /\ flat \in FlatDicts
    /\ folded = <<>>
    /\ result = Dict(<<>>)
    /\ ParamsIdle
    /\ AsyncIdle

\* one iteration of `for key_tuple, value in dct.items()`
FoldStep ==
    /\ flat # <<>>
    /\ ~IsExc(result)
    /\ result' = FoldEntry(result, Head(flat)[1], Head(flat)[2])
    /\ folded' = Append(folded, Head(flat))
    /\ flat' = Tail(flat)
    /\ UNCHANGED <<kvVars, paramVars, asyncVars>>

FoldNext == FoldStep

FoldSpec == FoldInit /\ [][FoldNext]_vars

\* ---------------------------------------------------------------------------
\* Adapter.request on worker threads: facades sharing one Adapter, each call on a
\* thread of its own, the threads interleaving between the steps of the session
\* property
\* ---------------------------------------------------------------------------

\* a call through facade kvs[k] reaches Adapter.request on thread t, which
\* evaluates self.session for build_request
Start(t) ==
    \E k \in 1..Len(kvs) :
        /\ pc[t] = Idle
        /\ pc' = [pc EXCEPT ![t] = [kv |-> k, use |-> "build", step |-> "test"]]
        /\ UNCHANGED <<kvVars, foldVars, paramVars, alive, held, mine, used>>

\* `if not self._session:`
Test(t) ==
    /\ pc[t].step = "test"
    /\ pc' = [pc EXCEPT ![t].step = IF held = 0 THEN "make" ELSE "load"]
    /\ UNCHANGED <<kvVars, foldVars, paramVars, alive, held, mine, used>>

\* httpx.Client(...): the right-hand side of the assignment
Make(t) ==
    /\ pc[t].step = "make"
    /\ mine' = [mine EXCEPT ![t] = Fresh]
    /\ alive' = alive \cup {Fresh}
    /\ pc' = [pc EXCEPT ![t].step = "store"]
    /\ UNCHANGED <<kvVars, foldVars, paramVars, held, used>>

\* `self._session = ...`
Store(t) ==
    /\ pc[t].step = "store"
    /\ held' = mine[t]
    /\ session' = TRUE
    /\ mine' = [mine EXCEPT ![t] = 0]
    /\ pc' = [pc EXCEPT ![t].step = "load"]
    /\ UNCHANGED <<kvs, call, op, request, http, response, outcome, foldVars, paramVars,
                   alive, used>>

\* `return self._session`, and the caller's build_request or send on what it got
Load(t) ==
    /\ pc[t].step = "load"
    /\ used' = [used EXCEPT ![t][pc[t].use] = held]
    /\ pc' = [pc EXCEPT ![t] = IF pc[t].use = "build"
                                THEN [kv |-> pc[t].kv, use |-> "send", step |-> "test"]
                                ELSE Done(pc[t].kv)]
    /\ UNCHANGED <<kvVars, foldVars, paramVars, alive, held, mine>>

AsyncNext ==
    \/ Prefixed
    \/ \E t \in Threads : Start(t)
    \/ \E t \in Threads : Test(t)
    \/ \E t \in Threads : Make(t)
    \/ \E t \in Threads : Store(t)
    \/ \E t \in Threads : Load(t)

AsyncSpec == Init /\ [][AsyncNext]_vars

\* ---------------------------------------------------------------------------
\* params_dict on its own: an Operation with any verb and any modifiers
\* ---------------------------------------------------------------------------

\* the Verb literal
Verbs ==
    {"set", "cas", "lock", "unlock", "get", "acquire", "release", "get-tree",
     "delete", "delete-tree", "delete-cas"}

\* what each modifier may hold besides None: values of the field's type, the
\* falsy ones (False, "", 0) among them
ModifierValues ==
    [raw |-> {Bool(FALSE), Bool(TRUE)}, separator |-> {Str(<<>>)}, keys |-> {Bool(TRUE)},
     recurse |-> {Bool(FALSE)}, index |-> {Num(7)}, wait |-> {Str(<<"5", "s">>)},
     flags |-> {Num(0)}, cas |-> {Num(0)}, acquire |-> Sessions, release |-> Sessions]

\* the field left unset, or set to one of vs
Optional(vs) == {None} \cup vs

Operations ==
    [verb : Verbs, key : {K_config}, value : Optional(Values),
     raw : Optional(ModifierValues.raw), separator : Optional(ModifierValues.separator),
     keys : Optional(ModifierValues.keys), recurse : Optional(ModifierValues.recurse),
     index : Optional(ModifierValues.index), wait : Optional(ModifierValues.wait),
     flags : Optional(ModifierValues.flags), cas : Optional(ModifierValues.cas),
     acquire : Optional(ModifierValues.acquire), release : Optional(ModifierValues.release)]

ParamsInit ==
    /\ kvs = <<KV("adapter", None)>>
    /\ session = FALSE
    /\ call = NoCall
    /\ op \in Operations
    /\ request = None
    /\ http = None
    /\ response = None
    /\ outcome = None
    /\ FoldIdle
    /\ ParamsIdle
    /\ AsyncIdle

\* op.params_dict()
ParamsDictStep ==
    /\ pdict = None
    /\ pdict' = [kind |-> "params", val |-> ParamsDict(op)]
    /\ UNCHANGED <<kvVars, foldVars, asyncVars>>

ParamsNext == ParamsDictStep

ParamsSpec == ParamsInit /\ [][ParamsNext]_vars

---------------------------------------------------------------------------
(* Properties *)

\* the default the pending call handed to KV.apply
CallDefault == IF call.name = "apply" THEN call.args.default ELSE None

\* the key KV.apply hands to Request
RequestKey == ApplyKey(kvs[call.kv].prefix, op.key)

\* s with every run of slashes shortened to one slash
RECURSIVE CollapseRuns(_)
CollapseRuns(s) ==
    IF Len(s) <= 1 THEN s
    ELSE IF s[1] = Slash /\ s[2] = Slash THEN CollapseRuns(Tail(s))
    ELSE <<s[1]>> \o CollapseRuns(Tail(s))

HasDoubleSlash(s) == \E i \in 1..Len(s) : MatchAt(s, <<Slash, Slash>>, i)

\* C1: on a facade whose prefix is set, the Request is built for the prefix followed
\* by the operation's key; with no prefix, for the operation's key alone.
C1_PrefixedKey ==
    call # NoCall =>
        LET prefix == kvs[call.kv].prefix
            key == IF Truthy(prefix) THEN prefix.val \o op.key ELSE op.key
        IN  request.path = PathJoin(<<KvPath, key>>)

\* C2: when the service answers 404, a call without a default raises NotFound and a
\* call with a default returns that default.
C2_MissingKey ==
    (http # None /\ http.status = 404) =>
        IF CallDefault = None THEN outcome = Exc("NotFound") ELSE outcome = CallDefault

\* C3: the request's method is DELETE for delete, delete_cas and delete_tree, PUT for
\* set, set_cas, lock (acquire) and unlock (release), GET for get, get_tree, list_tree.
C3_Methods ==
    call # NoCall =>
        request.method =
            IF op.verb \in {"delete", "delete-cas", "delete-tree"} THEN "DELETE"
            ELSE IF op.verb \in {"set", "cas", "acquire", "release"} THEN "PUT"
            ELSE "GET"

\* the separator get_tree and list_tree put on the wire for the call's arguments
TreeSeparator == IF call.args.recurse THEN Str(<<>>) ELSE Str(call.args.separator)

C5_GetTreeRecurse ==
    call.name \in {"get_records", "get_tree"} =>
        request.params = [recurse |-> Bool(TRUE), separator |-> TreeSeparator]

C5_Witness ==
    /\ call.name = "get_records"
    /\ ~call.args.recurse
    /\ request.params.recurse = Bool(TRUE)
    /\ request.params.separator = Str(call.args.separator)

\* C6: the Request's path starts with one slash, holds no "//", and is "/kv/" followed
\* by the key with each run of slashes collapsed to one.
C6_PathCollapsed ==
    call # NoCall =>
        /\ request.path[1] = Slash
        /\ ~HasDoubleSlash(request.path)
        /\ request.path = CollapseRuns(<<Slash>> \o KvPath \o <<Slash>> \o RequestKey)

WireRecordFields == {W_Key, W_Value, W_CreateIndex, W_ModifyIndex}

IsKeyRecordList(b) ==
    /\ b.kind = "list"
    /\ \A i \in 1..Len(b.val) :
          /\ b.val[i].kind = "dict"
          /\ W_Key \in DictKeys(b.val[i].val)
          /\ DictKeys(b.val[i].val) \subseteq WireRecordFields

\* the value is the Record of wire mapping m
IsRecordOf(v, m) ==
    /\ v.kind = "Record"
    /\ v.val[F_key] = DictGet(m.val, W_Key)
    /\ v.val[F_value] = IF DictHas(m.val, W_Value) THEN DictGet(m.val, W_Value) ELSE Str(<<>>)

\* C8: a body that is a list of key records decodes under verb "get" to the first
\* Record when it is non-empty and to the empty list when it is empty, and under
\* every other verb to the list of all Records, in the body's length and order.
C8_DecodeRecords ==
    (/\ http # None
     /\ call.name # "get_tree"
     /\ response.kind = "Response"
     /\ http.status # 404
     /\ IsKeyRecordList(http.body)) =>
        LET body == http.body.val
        IN  IF op.verb = "get"
            THEN IF Len(body) = 0 THEN outcome = List(<<>>)
                 ELSE IsRecordOf(outcome, body[1])
            ELSE /\ outcome.kind = "list"
                 /\ Len(outcome.val) = Len(body)
                 /\ \A i \in 1..Len(body) : IsRecordOf(outcome.val[i], body[i])

C8_Witness ==
    /\ http # None
    /\ op.verb = "get"
    /\ http.status = 200
    /\ http.body = List(<<M_xz, M_xy>>)
    /\ outcome.kind = "Record"
    /\ outcome.val[F_key] = Str(K_ab \o <<Slash, "x", Slash, "Z">>)

ProperPrefix(a, b) == Len(a) < Len(b) /\ SubSeq(b, 1, Len(a)) = a

\* two entries of the flat mapping collide: one's tuple is a proper prefix of the other's
Collides(items) ==
    \E i, j \in 1..Len(items) : ProperPrefix(items[i][1], items[j][1])

\* the leaves of a nested dict, each with its path; an empty dict below the root
\* counts as a leaf
RECURSIVE Leaves(_, _)
Leaves(node, path) ==
    IF node.kind # "dict" THEN {<<path, node>>}
    ELSE IF Len(node.val) = 0 THEN (IF path = <<>> THEN {} ELSE {<<path, node>>})
    ELSE UNION {Leaves(node.val[i][2], Append(path, node.val[i][1])) : i \in 1..Len(node.val)}

\* the items in every iteration order
Orders(items) ==
    {[i \in 1..Len(items) |-> items[p[i]]] : p \in Permutations(1..Len(items))}

\* C9: for a flat mapping of non-empty tuples none of which is a proper prefix of
\* another, flatdict_to_dict returns a nested mapping whose leaves are exactly the
\* entries, each at the path its tuple gives, whatever the order of the entries.
C9_FoldLeaves ==
    ~Collides(folded) =>
        /\ result.kind = "dict"
        /\ Leaves(result, <<>>) = {<<folded[i][1], folded[i][2]>> : i \in 1..Len(folded)}
        /\ \A q \in Orders(folded) : Canon(FlatdictToDict(q)) = Canon(result)

C9_Witness ==
    /\ flat = <<>>
    /\ folded = << <<(<<X, Y>>), Str(<<"1">>)>>, <<(<<X, Z>>), Str(<<"2">>)>> >>
    /\ result = Dict(<< <<X, Dict(<< <<Y, Str(<<"1">>)>>, <<Z, Str(<<"2">>)>> >>)>> >>)

\* C10: when two entries of the flat mapping collide, the fold raises in either
\* encounter order of the two.
C10_CollisionRaises ==
    ((flat = <<>> \/ IsExc(result)) /\ Collides(folded \o flat)) => IsExc(result)

\* C11: no prefixed call and no operation, through the original facade or through
\* a scoped view, changes the original facade (its prefix stays what it was); the
\* only step that changes the facades is a prefixed call, which leaves every
\* existing facade as it was and adds one new facade over the same adapter.
C11_PrefixedFrame ==
    [][/\ kvs'[1] = kvs[1]
       /\ kvs' # kvs =>
            /\ Len(kvs') = Len(kvs) + 1
            /\ SubSeq(kvs', 1, Len(kvs)) = kvs
            /\ kvs'[Len(kvs')].adapter = kvs[1].adapter]_vars

\* an operation through a scoped view has run to its end, the original still on
\* its own prefix
C11_Witness ==
    /\ Len(kvs) = 2
    /\ kvs[1].prefix = Str(P_svc)
    /\ kvs[2] = KV(kvs[1].adapter, Str(P_sub))
    /\ call # NoCall
    /\ call.kv = 2
    /\ http # None

\* the modifier fields of an Operation
Modifiers ==
    {"raw", "separator", "keys", "recurse", "index", "wait", "flags", "cas",
     "acquire", "release"}

\* C12: for every Operation, whatever its verb and whichever modifiers are set,
\* params_dict returns the mapping whose names are exactly the modifiers that are
\* not None, each with the value the Operation holds, and verb, key and value are
\* never among its names.
C12_ParamsDict ==
    pdict # None =>
        /\ DOMAIN pdict.val = {f \in Modifiers : op[f] # None}
        /\ \A f \in DOMAIN pdict.val : pdict.val[f] = op[f]
        /\ DOMAIN pdict.val \cap {"verb", "key", "value"} = {}

\* params_dict has run on an Operation with a value, falsy modifiers that are set
\* and modifiers that are unset
C12_Witness ==
    /\ pdict # None
    /\ op.verb = "cas"
    /\ op.value # None
    /\ op.flags = Num(0)
    /\ op.raw = Bool(FALSE)
    /\ op.wait = None
    /\ DOMAIN pdict.val = {"raw", "flags", "cas"}

\* a body the decoder has no case for: a number, a single JSON object, or a list
\* mixing strings and mappings
UnrecognisedShape(b) ==
    \/ b.kind \in {"int", "dict"}
    \/ /\ b.kind = "list"
       /\ \E i, j \in 1..Len(b.val) : b.val[i].kind = "str" /\ b.val[j].kind = "dict"

\* C13: when a response other than 404 carries a body of a shape the decoder does
\* not recognise, a call with no default ends in the key-not-found error, a call
\* with a default returns the default, and None is never what the caller gets.
C13_SentinelNeverReturned ==
    (/\ http # None
     /\ ~IsExc(response)
     /\ http.status # 404
     /\ UnrecognisedShape(http.body)) =>
        /\ outcome # None
        /\ IF CallDefault = None
           THEN outcome \in {Exc("NotFound"), Exc("KeyError")}
           ELSE outcome = CallDefault

\* every worker thread has sent its request
AllSent == \A t \in Threads : pc[t].step = "done"

\* C14: however the threads interleave, starting with no session, the session
\* property never has made more than one client; once every request is sent,
\* exactly one client was made, every request was built and sent with it, and
\* every client made is the one the Adapter refers to, which close() would close.
C14_OneClient ==
    /\ Cardinality(alive) <= 1
    /\ AllSent =>
        /\ Cardinality(alive) = 1
        /\ \A t \in Threads : used[t].build = held /\ used[t].send = held
        /\ alive \subseteq {held}

===========================================================================
